---- MODULE Spec2Model ----
(***************************************************************************)
(* Model of src/main.py of glp1-research-podcast: the script segmenter     *)
(* (parse_script), the audio synthesizer (generate_conversational_audio),  *)
(* the feed publisher (update_rss_feed), the study fetcher (fetch_studies)  *)
(* and the orchestrator (main).                                            *)
(*                                                                         *)
(* Text is modelled as a sequence of tokens.  The tokens "Dan" and "Alex"  *)
(* stand for those exact character runs, ":" for a colon, " " for one      *)
(* whitespace character (blank or newline) and "w" for any other           *)
(* character.  A one-token sequence <<"Dan">> is the string 'Dan'.         *)
(***************************************************************************)
EXTENDS Integers, Sequences, FiniteSets, TLC

VARIABLES
    script,        \* text returned by analyze_with_claude for the current run
    segments,      \* list returned by parse_script
    reparsed,      \* parse_script applied to the re-rendered segments
    pc,            \* position of the run
    i,             \* loop index of generate_conversational_audio (0-based)
    temp_dir,      \* scratch directory: "none", "created" or "removed"
    scratch,       \* clip files present in the scratch directory
    audio_files,   \* paths of the clips written so far, in order
    episode_file,  \* the exported audio file under episodes/
    export_calls,  \* exports attempted by the current run
    result,        \* (output_path, duration_seconds) returned to the caller
    error,         \* exception that ended the operation, "none" if none
    tts_log,       \* speech-synthesis calls made by the current run
    now,           \* the clock, in ticks
    feed,          \* the file feed.xml
    feed0,         \* the file feed.xml before the first run
    runs,          \* runs of main (calls of update_rss_feed) started so far
    feed_writes,   \* writes of feed.xml by the current run
    inserted,      \* the entries built by the completed feed updates, in order
    race,          \* two concurrent runs inside update_rss_feed
    fetch          \* a call of fetch_studies

(***************************************************************************)
(* Bounds                                                                  *)
(***************************************************************************)
MaxScriptLen == 6

MaxTime == 4

MaxRuns == 3

MaxArticles == 3

(***************************************************************************)
(* Script text                                                             *)
(***************************************************************************)
Tokens == {"Dan", "Alex", ":", " ", "w"}

SpeakerNames == {<<"Dan">>, <<"Alex">>}

BoundedSeq(S, n) == UNION {[1..k -> S] : k \in 0..n}

Scripts == BoundedSeq(Tokens, MaxScriptLen)

\* the pattern (Dan|Alex): matches at position p
LabelAt(s, p) ==
    /\ p + 1 <= Len(s)
    /\ s[p] \in {"Dan", "Alex"}
    /\ s[p + 1] = ":"

\* \s* of the pattern: the position after the whitespace run starting at p
RECURSIVE SkipSpace(_, _)
SkipSpace(s, p) ==
    IF p <= Len(s) /\ s[p] = " " THEN SkipSpace(s, p + 1) ELSE p

\* re.split(pattern, script) with one capture group:
\* <<text0, name1, text1, name2, text2, ...>>
RECURSIVE SplitFrom(_, _, _)
SplitFrom(s, p, cur) ==
    IF p > Len(s) THEN <<cur>>
    ELSE IF LabelAt(s, p)
         THEN <<cur, <<s[p]>> >> \o SplitFrom(s, SkipSpace(s, p + 2), <<>>)
         ELSE SplitFrom(s, p + 1, Append(cur, s[p]))

re_split(s) == SplitFrom(s, 1, <<>>)

RECURSIVE lstrip(_)
lstrip(t) == IF t # <<>> /\ Head(t) = " " THEN lstrip(Tail(t)) ELSE t

RECURSIVE rstrip(_)
rstrip(t) ==
    IF t # <<>> /\ t[Len(t)] = " " THEN rstrip(SubSeq(t, 1, Len(t) - 1)) ELSE t

\* trailing whitespace kept
strip_left_only(t) == lstrip(t)

\* str.strip()
strip(t) == rstrip(lstrip(t))

\* index (0-based, as in the source) at which the scan of parts starts
FirstIndex(parts) ==
    IF strip(parts[1]) = <<>> \/ strip(parts[1]) \notin SpeakerNames
    THEN 1 ELSE 0

\* the while loop of parse_script; j is the 0-based index i of the
\* source, whose parts[i] is parts[j + 1] here
RECURSIVE ScanParts(_, _, _)
ScanParts(parts, j, segs) ==
    IF ~(j < Len(parts) - 1) THEN segs
    ELSE LET speaker == strip(parts[j + 1]) IN
         IF speaker \in SpeakerNames
         THEN LET text == strip(parts[j + 2]) IN
              IF text # <<>>
              THEN ScanParts(parts, j + 2,
                             Append(segs, [speaker |-> speaker[1], text |-> text]))
              ELSE ScanParts(parts, j + 2, segs)
         ELSE ScanParts(parts, j + 1, segs)

parse_script(s) ==
    LET parts == re_split(s) IN ScanParts(parts, FirstIndex(parts), <<>>)

\* 'Label: utterance' for every segment, joined by a newline
RECURSIVE Render(_)
Render(segs) ==
    IF segs = <<>> THEN <<>>
    ELSE <<segs[1].speaker, ":", " ">> \o segs[1].text
         \o (IF Len(segs) > 1 THEN <<" ">> ELSE <<>>) \o Render(Tail(segs))

(***************************************************************************)
(* Audio synthesizer                                                       *)
(***************************************************************************)
VOICE_DAN == "pNInz6obpgDQGcFmaJgB"

VOICE_ALEX == "21m00Tcm4TlvDq8ikWAM"

\* AudioSegment.silent(duration=300)
PauseMs == 300

\* lengths in milliseconds of the clips the speech service may return
ClipDurations == {1000, 2000}

NoFile == [exists |-> FALSE, audio |-> <<>>]

NoResult == [returned |-> FALSE, whole |-> 0, millis |-> 0]

AudioIdle ==
    /\ i = 0
    /\ temp_dir = "none"
    /\ scratch = {}
    /\ audio_files = <<>>
    /\ episode_file = NoFile
    /\ export_calls = 0
    /\ result = NoResult
    /\ error = "none"
    /\ tts_log = <<>>

\* voice_id = VOICE_DAN if speaker == "Dan" else VOICE_ALEX
VoiceOf(speaker) == IF speaker = "Dan" THEN VOICE_DAN ELSE VOICE_ALEX

\* len(audio): milliseconds of a sequence of pieces
RECURSIVE AudioLen(_)
AudioLen(audio) ==
    IF audio = <<>> THEN 0 ELSE audio[1].ms + AudioLen(Tail(audio))

\* AudioSegment.from_mp3(path): the content of the clip file at path
from_mp3(path) == CHOOSE f \in scratch : f.path = path

\* a pause between clips only, none after the last
RECURSIVE CombineNoTrailingPause(_)
CombineNoTrailingPause(files) ==
    IF files = <<>> THEN <<>>
    ELSE << [kind |-> "clip", clip |-> files[1], ms |-> from_mp3(files[1]).ms] >>
         \o (IF Len(files) > 1
             THEN << [kind |-> "silence", clip |-> files[1], ms |-> PauseMs] >>
             ELSE <<>>)
         \o CombineNoTrailingPause(Tail(files))

\* combined = empty; for each file: combined += segment + silent(300)
RECURSIVE Combine(_)
Combine(files) ==
    IF files = <<>> THEN <<>>
    ELSE << [kind |-> "clip", clip |-> files[1], ms |-> from_mp3(files[1]).ms],
            [kind |-> "silence", clip |-> files[1], ms |-> PauseMs] >>
         \o Combine(Tail(files))

\* len(combined) / 1000 as whole seconds and thousandths
DurationSeconds(ms) ==
    [returned |-> TRUE, whole |-> ms \div 1000, millis |-> ms % 1000]

\* the scratch directory removed at the end of the try block only
CleanupOnSuccess ==
    IF error' = "none"
    THEN temp_dir' = "removed" /\ scratch' = {}
    ELSE UNCHANGED <<temp_dir, scratch>>

\* the finally block: shutil.rmtree(temp_dir)
Cleanup ==
    /\ temp_dir' = "removed"
    /\ scratch' = {}

(***************************************************************************)
(* Feed publisher                                                          *)
(***************************************************************************)
REPO_NAME == "glp1-research-podcast"

\* ticks of the clock in one second, the resolution of %S in strftime
TicksPerSecond == 2

\* a call of update_rss_feed spans at most this many ticks
CallTicks == 1

\* strftime(... %H:%M:%S ...) of the clock value t
strftime(t) == t \div TicksPerSecond

\* size in bytes of an audio file exported at 128 kbit/s
FileSize(file) == AudioLen(file.audio) * 16

Meta(tag) == [tag |-> tag, text |-> 0 - 1]

\* lines 433-463: the channel of a newly created document
NewChannel(t) ==
    << Meta("title"), Meta("link"), Meta("description"), Meta("language"),
       [tag |-> "lastBuildDate", text |-> strftime(t)],
       Meta("itunes:author"), Meta("itunes:summary"), Meta("itunes:explicit"),
       Meta("itunes:category") >>

AbsentFeed == [kind |-> "absent", has_channel |-> FALSE, channel |-> <<>>]

XmlFeed(channel) == [kind |-> "xml", has_channel |-> TRUE, channel |-> channel]

\* channel.find(tag): index of the first child with that tag, 0 if none
Find(channel, tag) ==
    IF \E k \in 1..Len(channel) : channel[k].tag = tag
    THEN CHOOSE k \in 1..Len(channel) :
            /\ channel[k].tag = tag
            /\ \A m \in 1..(k - 1) : channel[m].tag # tag
    ELSE 0

\* channel.findall('item')
RECURSIVE findall_item(_)
findall_item(channel) ==
    IF channel = <<>> THEN <<>>
    ELSE (IF channel[1].tag = "item" THEN <<channel[1]>> ELSE <<>>)
         \o findall_item(Tail(channel))

\* the build date of a loaded document left as it was
RefreshSkipped(channel, t) == channel

\* lines 465-468: refresh lastBuildDate when the channel has one
RefreshBuildDate(channel, t) ==
    LET k == Find(channel, "lastBuildDate") IN
    IF k # 0 THEN [channel EXCEPT ![k].text = strftime(t)] ELSE channel

\* lines 470-505: the new item
NewItem(episode, tPub, tGuid, mp3, duration_ms) ==
    [tag |-> "item",
     episode |-> episode,
     pubDate |-> strftime(tPub),
     guid |-> <<REPO_NAME, strftime(tGuid)>>,
     length |-> IF mp3.exists THEN FileSize(mp3) ELSE 0,
     minutes |-> duration_ms \div 60000,
     seconds |-> (duration_ms % 60000) \div 1000]

\* the new item always appended
InsertItemAppend(channel, item) == Append(channel, item)

\* lines 507-513: insert before the first item, append when there is none
InsertItem(channel, item) ==
    LET k == Find(channel, "item") IN
    IF k # 0
    THEN SubSeq(channel, 1, k - 1) \o <<item>> \o SubSeq(channel, k, Len(channel))
    ELSE Append(channel, item)

\* lines 426-430: the document can be loaded and has a channel
Loadable(file) == file.kind = "absent" \/ (file.kind = "xml" /\ file.has_channel)

\* update_rss_feed: the document written, given the four clock readings
update_rss_feed(file, tCreate, tBuild, tPub, tGuid, episode, mp3, duration_ms) ==
    LET channel == IF file.kind = "absent" THEN NewChannel(tCreate)
                   ELSE file.channel
        item == NewItem(episode, tPub, tGuid, mp3, duration_ms)
    IN  XmlFeed(InsertItem(RefreshBuildDate(channel, tBuild), item))

\* the clock readings of one call that starts at tick t
ClockReadings(t) ==
    {r \in [1..4 -> t..(t + CallTicks)] :
        /\ r[4] <= MaxTime
        /\ \A k \in 1..3 : r[k] <= r[k + 1]}

Items(file) == findall_item(file.channel)

FeedIdle ==
    /\ now = 0
    /\ feed = AbsentFeed
    /\ feed0 = AbsentFeed
    /\ runs = 0
    /\ feed_writes = 0
    /\ inserted = <<>>

(***************************************************************************)
(* Concurrent runs and the study fetcher: values while they are not used   *)
(***************************************************************************)
\* the two runs that execute update_rss_feed at the same time
RaceRuns == {1, 2}

RaceIdle ==
    [pc |-> [p \in RaceRuns |-> "idle"],
     tree |-> [p \in RaceRuns |-> AbsentFeed],
     overlapped |-> FALSE]

FetchIdle ==
    [pc |-> "idle", max_studies |-> 0, articles |-> <<>>, all_studies |-> <<>>,
     studies |-> <<>>, error |-> "none"]

SideIdle ==
    /\ race = RaceIdle
    /\ fetch = FetchIdle

vars == <<script, segments, reparsed, pc, i, temp_dir, scratch, audio_files,
          episode_file, export_calls, result, error, tts_log, now, feed, feed0,
          runs, feed_writes, inserted, race, fetch>>

feedVars == <<now, feed, feed0, runs, feed_writes, inserted>>

scriptVars == <<script, segments, reparsed>>

sideVars == <<race, fetch>>

audioVars == <<i, temp_dir, scratch, audio_files, episode_file, export_calls,
               result, error, tts_log>>

(***************************************************************************)
(* Segmenter on its own: every script within the bound is segmented, then  *)
(* the segments are rendered back to text and segmented again.             *)
(***************************************************************************)
InitParse ==
    /\ script \in Scripts
    /\ segments = <<>>
    /\ reparsed = <<>>
    /\ pc = "script"
    /\ AudioIdle
    /\ FeedIdle
    /\ SideIdle

Segment ==
    /\ pc = "script"
    /\ segments' = parse_script(script)
    /\ pc' = "segmented"
    /\ UNCHANGED <<script, reparsed>>
    /\ UNCHANGED <<audioVars, feedVars, sideVars>>

Reassemble ==
    /\ pc = "segmented"
    /\ reparsed' = parse_script(Render(segments))
    /\ pc' = "reassembled"
    /\ UNCHANGED <<script, segments>>
    /\ UNCHANGED <<audioVars, feedVars, sideVars>>

NextParse == Segment \/ Reassemble

SpecParse == InitParse /\ [][NextParse]_vars

(***************************************************************************)
(* Steps of generate_conversational_audio                                  *)
(***************************************************************************)
\* the scratch directory created before the segment list is checked
GenerateBeginDirFirst ==
    /\ pc = "call"
    /\ segments' = parse_script(script)
    /\ temp_dir' = "created"
    /\ IF segments' = <<>>
       THEN error' = "EmptyScript" /\ pc' = "raised"
       ELSE pc' = "synthesize" /\ UNCHANGED error
    /\ UNCHANGED <<script, reparsed, i, scratch, audio_files, episode_file,
                   export_calls, result, tts_log, feedVars, sideVars>>

\* lines 347-360: parse, refuse an empty segment list, create the scratch dir
GenerateBegin ==
    /\ pc = "call"
    /\ segments' = parse_script(script)
    /\ IF segments' = <<>>
       THEN /\ error' = "EmptyScript"
            /\ pc' = "raised"
            /\ UNCHANGED temp_dir
       ELSE /\ temp_dir' = "created"
            /\ pc' = "synthesize"
            /\ UNCHANGED error
    /\ UNCHANGED <<script, reparsed, i, scratch, audio_files, episode_file,
                   export_calls, result, tts_log, feedVars, sideVars>>

\* the entry of tts_log for segment i; ms is the length of the audio returned
TtsCall(ms) ==
    [segment |-> i,
     voice_id |-> VoiceOf(segments[i + 1].speaker),
     text |-> segments[i + 1].text,
     ms |-> ms]

\* a failed synthesis call is made again instead of ending the operation
SynthesizeSegmentRetry ==
    /\ pc = "synthesize"
    /\ i < Len(segments)
    /\ \/ \E d \in ClipDurations :
             /\ tts_log' = Append(tts_log, TtsCall(d))
             /\ scratch' = scratch \cup {[path |-> i, ms |-> d]}
             /\ audio_files' = Append(audio_files, i)
             /\ i' = i + 1
             /\ pc' = IF i + 1 < Len(segments) THEN "synthesize" ELSE "combine"
             /\ UNCHANGED <<temp_dir, error>>
       \/ /\ Len(tts_log) < 2 * Len(segments)
          /\ tts_log' = Append(tts_log, TtsCall(0))
          /\ error' = "tts_error"
          /\ UNCHANGED <<pc, temp_dir, scratch, audio_files, i>>
    /\ UNCHANGED <<scriptVars, episode_file, export_calls, result, feedVars, sideVars>>

\* lines 363-387: one iteration of the loop over the segments
SynthesizeSegment ==
    /\ pc = "synthesize"
    /\ i < Len(segments)
    /\ \/ \E d \in ClipDurations :
             /\ tts_log' = Append(tts_log, TtsCall(d))
             /\ scratch' = scratch \cup {[path |-> i, ms |-> d]}
             /\ audio_files' = Append(audio_files, i)
             /\ i' = i + 1
             /\ pc' = IF i + 1 < Len(segments) THEN "synthesize" ELSE "combine"
             /\ UNCHANGED <<temp_dir, error>>
       \/ /\ tts_log' = Append(tts_log, TtsCall(0))
          /\ error' = "tts_error"
          /\ pc' = "raised"
          /\ Cleanup
          /\ UNCHANGED <<audio_files, i>>
       \/ \E d \in ClipDurations :
             /\ tts_log' = Append(tts_log, TtsCall(d))
             /\ error' = "write_error"
             /\ pc' = "raised"
             /\ Cleanup
             /\ UNCHANGED <<audio_files, i>>
    /\ UNCHANGED <<scriptVars, episode_file, export_calls, result, feedVars, sideVars>>

\* lines 389-410: decode and join the clips, export, report the duration
CombineAndExport ==
    /\ pc = "combine"
    /\ \/ /\ error' = "decode_error"
          /\ pc' = "raised"
          /\ UNCHANGED <<episode_file, export_calls, result>>
       \/ /\ error' = "export_error"
          /\ pc' = "raised"
          /\ export_calls' = export_calls + 1
          /\ \E truncated \in BOOLEAN :
                episode_file' = IF truncated
                                THEN [exists |-> TRUE, audio |-> <<>>]
                                ELSE episode_file
          /\ UNCHANGED result
       \/ LET combined == Combine(audio_files) IN
          /\ episode_file' = [exists |-> TRUE, audio |-> combined]
          /\ export_calls' = export_calls + 1
          /\ result' = DurationSeconds(AudioLen(combined))
          /\ pc' = "returned"
          /\ UNCHANGED error
    /\ Cleanup
    /\ UNCHANGED <<scriptVars, i, audio_files, tts_log, feedVars, sideVars>>

(***************************************************************************)
(* generate_conversational_audio on its own, on every script within the    *)
(* bound.                                                                  *)
(***************************************************************************)
InitAudio ==
    /\ script \in Scripts
    /\ segments = <<>>
    /\ reparsed = <<>>
    /\ pc = "call"
    /\ AudioIdle
    /\ FeedIdle
    /\ SideIdle

NextAudio == GenerateBegin \/ SynthesizeSegment \/ CombineAndExport

SpecAudio == InitAudio /\ [][NextAudio]_vars

(***************************************************************************)
(* update_rss_feed on its own: calls at any times, on a feed.xml that is   *)
(* absent, unreadable, or a document left by earlier runs or edits.        *)
(***************************************************************************)
OldItem == [tag |-> "item", episode |-> 0, pubDate |-> 0,
            guid |-> <<"old", 0>>, length |-> 0, minutes |-> 0, seconds |-> 0]

InitialFeeds ==
    { AbsentFeed,
      [kind |-> "malformed", has_channel |-> FALSE, channel |-> <<>>],
      [kind |-> "xml", has_channel |-> FALSE, channel |-> <<>>],
      XmlFeed(NewChannel(0)),
      XmlFeed(<<Meta("title"), OldItem, Meta("link")>>),
      XmlFeed(<<Meta("title"), [tag |-> "lastBuildDate", text |-> 0], OldItem>>) }

\* durations (milliseconds) passed to update_rss_feed
FeedDurations == {5000, 125700}

\* the audio file named by mp3_filename, when it is on disk
SomeEpisode == [exists |-> TRUE, audio |-> <<[kind |-> "clip", clip |-> 0, ms |-> 1000]>>]

InitFeed ==
    /\ script = <<>>
    /\ segments = <<>>
    /\ reparsed = <<>>
    /\ pc = "feed"
    /\ i = 0
    /\ temp_dir = "none"
    /\ scratch = {}
    /\ audio_files = <<>>
    /\ episode_file \in {NoFile, SomeEpisode}
    /\ export_calls = 0
    /\ result = NoResult
    /\ error = "none"
    /\ tts_log = <<>>
    /\ now = 0
    /\ feed \in InitialFeeds
    /\ feed0 = feed
    /\ runs = 0
    /\ feed_writes = 0
    /\ inserted = <<>>
    /\ SideIdle

\* one call of update_rss_feed, started when the clock shows start
UpdateFeed(start, episode, duration_ms) ==
    IF Loadable(feed)
    THEN \E r \in ClockReadings(start) :
            /\ feed' = update_rss_feed(feed, r[1], r[2], r[3], r[4],
                                       episode, episode_file, duration_ms)
            /\ inserted' = Append(inserted,
                                  NewItem(episode, r[3], r[4], episode_file,
                                          duration_ms))
            /\ now' = r[4]
            /\ feed_writes' = feed_writes + 1
            /\ error' = "none"
    ELSE /\ error' = "feed_error"
         /\ now' = start
         /\ UNCHANGED <<feed, inserted, feed_writes>>

CallUpdateFeed ==
    /\ pc = "feed"
    /\ runs < MaxRuns
    /\ runs' = runs + 1
    /\ \E start \in now..MaxTime, d \in FeedDurations :
          UpdateFeed(start, runs + 1, d)
    /\ UNCHANGED <<scriptVars, pc, i, temp_dir, scratch, audio_files,
                   episode_file, export_calls, result, tts_log, feed0,
                   sideVars>>

NextFeed == CallUpdateFeed

SpecFeed == InitFeed /\ [][NextFeed]_vars

(***************************************************************************)
(* The orchestrator: successive runs of main.                              *)
(***************************************************************************)
\* scripts returned by analyze_with_claude
ScriptSamples ==
    { <<>>,
      <<"w", " ", "w">>,
      <<"Dan", " ", "w">>,
      <<"Alex", ":", " ">>,
      <<"Dan", ":", " ", "w">>,
      <<"Dan", " ", "Alex", ":", " ", "w">>,
      <<"w", " ", "Dan", ":", " ", "w", " ", "Alex", ":", " ", "w", "w">> }

Init ==
    /\ script = <<>>
    /\ segments = <<>>
    /\ reparsed = <<>>
    /\ pc = "idle"
    /\ AudioIdle
    /\ FeedIdle
    /\ SideIdle

\* lines 530-555: a run starts and fetches the studies
MainFetch ==
    /\ pc \in {"idle", "done", "raised"}
    /\ runs < MaxRuns
    /\ runs' = runs + 1
    /\ \E start \in now..MaxTime : now' = start
    /\ \E outcome \in {"studies", "none", "raised"} :
          /\ pc' = CASE outcome = "studies" -> "analyze"
                      [] outcome = "none" -> "done"
                      [] OTHER -> "raised"
          /\ error' = IF outcome = "raised" THEN "TypeError" ELSE "none"
    /\ \E kept \in BOOLEAN :
          episode_file' = IF kept THEN episode_file ELSE NoFile
    /\ script' = <<>>
    /\ segments' = <<>>
    /\ i' = 0
    /\ temp_dir' = "none"
    /\ scratch' = {}
    /\ audio_files' = <<>>
    /\ export_calls' = 0
    /\ result' = NoResult
    /\ tts_log' = <<>>
    /\ feed_writes' = 0
    /\ UNCHANGED <<reparsed, feed, feed0, inserted, sideVars>>

\* lines 557-566: the script is generated
MainAnalyze ==
    /\ pc = "analyze"
    /\ \/ \E s \in ScriptSamples :
             /\ script' = s
             /\ pc' = "call"
             /\ UNCHANGED error
       \/ /\ error' = "api_error"
          /\ pc' = "raised"
          /\ UNCHANGED script
    /\ UNCHANGED <<segments, reparsed, i, temp_dir, scratch, audio_files,
                   episode_file, export_calls, result, tts_log, feedVars, sideVars>>

\* line 577: the feed is updated with the duration the synthesizer returned
MainUpdateFeed ==
    /\ pc = "returned"
    /\ UpdateFeed(now, runs, result.whole * 1000 + result.millis)
    /\ pc' = IF Loadable(feed) THEN "done" ELSE "raised"
    /\ UNCHANGED <<scriptVars, i, temp_dir, scratch, audio_files, episode_file,
                   export_calls, result, tts_log, feed0, runs, sideVars>>

Next ==
    \/ MainFetch
    \/ MainAnalyze
    \/ GenerateBegin
    \/ SynthesizeSegment
    \/ CombineAndExport
    \/ MainUpdateFeed

Spec == Init /\ [][Next]_vars

(***************************************************************************)
(* Two runs inside update_rss_feed at the same time on the same feed.xml.  *)
(* Each run loads the document, inserts its item in memory and rewrites    *)
(* the file; nothing locks the file.                                       *)
(***************************************************************************)
\* open(feed_path, 'w') has emptied the file and nothing is flushed yet
TruncatedFeed == [kind |-> "malformed", has_channel |-> FALSE, channel |-> <<>>]

\* the document is built anew whatever is on disk
LoadFeedFresh(file, t) == XmlFeed(NewChannel(t))

\* lines 426-463: the tree a run holds after the load-or-create step
LoadFeed(file, t) ==
    IF file.kind = "absent" THEN XmlFeed(NewChannel(t)) ELSE file

\* the clock readings of lines 468, 476 and 482 of a run that is at tick t
InsertReadings(t) ==
    {r \in [1..3 -> t..(t + CallTicks)] :
        /\ r[3] <= MaxTime
        /\ \A k \in 1..2 : r[k] <= r[k + 1]}

\* another run has loaded the document and not yet finished writing it
InFlight(p) ==
    \E q \in RaceRuns \ {p} : race.pc[q] \in {"loaded", "inserted", "writing"}

InitRace ==
    /\ script = <<>>
    /\ segments = <<>>
    /\ reparsed = <<>>
    /\ pc = "race"
    /\ AudioIdle
    /\ now = 0
    /\ feed \in InitialFeeds
    /\ feed0 = feed
    /\ runs = 0
    /\ feed_writes = 0
    /\ inserted = <<>>
    /\ race = [RaceIdle EXCEPT !.pc = [p \in RaceRuns |-> "start"]]
    /\ fetch = FetchIdle

\* lines 426-463: parse feed.xml, or build a new document when it is absent
RaceLoad(p) ==
    /\ race.pc[p] = "start"
    /\ \E t \in now..MaxTime :
          /\ now' = t
          /\ IF feed.kind = "malformed"
             THEN race' = [race EXCEPT !.pc[p] = "failed"]
             ELSE race' = [race EXCEPT !.pc[p] = "loaded",
                                       !.tree[p] = LoadFeed(feed, t),
                                       !.overlapped = race.overlapped \/ InFlight(p)]
    /\ UNCHANGED <<scriptVars, pc, audioVars, feed, feed0, runs, feed_writes,
                   inserted, fetch>>

\* lines 465-513: refresh the build date and insert the item, in memory
RaceInsert(p) ==
    /\ race.pc[p] = "loaded"
    /\ IF race.tree[p].has_channel
       THEN \E r \in InsertReadings(now), d \in FeedDurations :
               /\ race' = [race EXCEPT
                     !.pc[p] = "inserted",
                     !.tree[p] = XmlFeed(InsertItem(
                                    RefreshBuildDate(race.tree[p].channel, r[1]),
                                    NewItem(p, r[2], r[3], episode_file, d)))]
               /\ now' = r[3]
       ELSE /\ race' = [race EXCEPT !.pc[p] = "failed"]
            /\ UNCHANGED now
    /\ UNCHANGED <<scriptVars, pc, audioVars, feed, feed0, runs, feed_writes,
                   inserted, fetch>>

\* line 524: the file is opened for writing, which empties it
RaceOpen(p) ==
    /\ race.pc[p] = "inserted"
    /\ feed' = TruncatedFeed
    /\ race' = [race EXCEPT !.pc[p] = "writing"]
    /\ UNCHANGED <<scriptVars, pc, audioVars, now, feed0, runs, feed_writes,
                   inserted, fetch>>

\* lines 525-527: the whole document is written and the file closed
RaceWrite(p) ==
    /\ race.pc[p] = "writing"
    /\ feed' = race.tree[p]
    /\ race' = [race EXCEPT !.pc[p] = "done"]
    /\ UNCHANGED <<scriptVars, pc, audioVars, now, feed0, runs, feed_writes,
                   inserted, fetch>>

NextRace ==
    \E p \in RaceRuns : RaceLoad(p) \/ RaceInsert(p) \/ RaceOpen(p) \/ RaceWrite(p)

SpecRace == InitRace /\ [][NextRace]_vars

(***************************************************************************)
(* The study fetcher: fetch_studies                                        *)
(***************************************************************************)
\* values of the max_studies argument (main passes 5)
MaxStudiesValues == {2, 5}

\* publication dates that dateutil parses, as calendar days
PubDates == {1, 2}

\* what one PubmedArticle of the efetch response can be
ArticleShapes ==
    [kind : {"parsed"}, day : PubDates]
    \cup [kind : {"missing", "unparsable", "broken"}, day : {0}]

ArticleBatches == BoundedSeq(ArticleShapes, MaxArticles)

\* lines 199-215: date_parser.parse gives a datetime without a time zone,
\* datetime.now(timezone.utc) one with a time zone
PubDateOf(article, t) ==
    IF article.kind = "parsed"
    THEN [aware |-> FALSE, t |-> article.day]
    ELSE [aware |-> TRUE, t |-> t]

\* comparing a datetime without a time zone with one that has it raises
\* TypeError; a sort of a list holding both kinds makes such a comparison
Comparable(studies) ==
    \A k, m \in 1..Len(studies) :
        studies[k].pubdate.aware = studies[m].pubdate.aware

\* list.sort(key=pubdate, reverse=True): a stable insertion, latest first
RECURSIVE InsertByDate(_, _)
InsertByDate(sorted, study) ==
    IF sorted = <<>> THEN <<study>>
    ELSE IF sorted[1].pubdate.t >= study.pubdate.t
         THEN <<sorted[1]>> \o InsertByDate(Tail(sorted), study)
         ELSE <<study>> \o sorted

RECURSIVE SortByDate(_)
SortByDate(studies) ==
    IF studies = <<>> THEN <<>>
    ELSE InsertByDate(SortByDate(SubSeq(studies, 1, Len(studies) - 1)),
                      studies[Len(studies)])

\* all_studies[:max_studies]
Truncate(studies, n) ==
    IF Len(studies) <= n THEN studies ELSE SubSeq(studies, 1, n)

InitFetch ==
    /\ script = <<>>
    /\ segments = <<>>
    /\ reparsed = <<>>
    /\ pc = "fetch"
    /\ AudioIdle
    /\ FeedIdle
    /\ race = RaceIdle
    /\ \E n \in MaxStudiesValues :
          fetch = [FetchIdle EXCEPT !.pc = "search", !.max_studies = n]

\* lines 126-158: the searches; no identifier found returns the empty list
FetchSearch ==
    /\ fetch.pc = "search"
    /\ \E found \in BOOLEAN :
          fetch' = [fetch EXCEPT !.pc = IF found THEN "details" ELSE "returned"]
    /\ UNCHANGED <<scriptVars, pc, audioVars, feedVars, race>>

\* lines 160-176: the batch detail request; its failure returns the empty list
FetchDetails ==
    /\ fetch.pc = "details"
    /\ \/ fetch' = [fetch EXCEPT !.pc = "returned", !.error = "efetch_error"]
       \/ \E batch \in ArticleBatches :
             fetch' = [fetch EXCEPT !.pc = "parse", !.articles = batch]
    /\ UNCHANGED <<scriptVars, pc, audioVars, feedVars, race>>

\* lines 178-231: one article; an article that cannot be read is skipped
ParseArticle ==
    /\ fetch.pc = "parse"
    /\ fetch.articles # <<>>
    /\ LET article == Head(fetch.articles) IN
       \E t \in now..(now + 1) :
          /\ t <= MaxTime
          /\ now' = t
          /\ fetch' = [fetch EXCEPT
                !.articles = Tail(fetch.articles),
                !.all_studies =
                    IF article.kind = "broken" THEN fetch.all_studies
                    ELSE Append(fetch.all_studies,
                                [title |-> Len(fetch.all_studies) + 1,
                                 kind |-> article.kind,
                                 pubdate |-> PubDateOf(article, t)])]
    /\ UNCHANGED <<scriptVars, pc, audioVars, feed, feed0, runs, feed_writes,
                   inserted, race>>

\* lines 233-238: sort by date, latest first, and keep max_studies
RankStudies ==
    /\ fetch.pc = "parse"
    /\ fetch.articles = <<>>
    /\ IF Comparable(fetch.all_studies)
       THEN fetch' = [fetch EXCEPT
                !.pc = "returned",
                !.studies = Truncate(SortByDate(fetch.all_studies),
                                     fetch.max_studies)]
       ELSE fetch' = [fetch EXCEPT !.pc = "raised", !.error = "TypeError"]
    /\ UNCHANGED <<scriptVars, pc, audioVars, feedVars, race>>

NextFetch == FetchSearch \/ FetchDetails \/ ParseArticle \/ RankStudies

SpecFetch == InitFetch /\ [][NextFetch]_vars

(***************************************************************************)
(* Properties                                                              *)
(***************************************************************************)
RECURSIVE Reverse(_)
Reverse(q) == IF q = <<>> THEN <<>> ELSE Append(Reverse(Tail(q)), Head(q))

RECURSIVE SumMs(_)
SumMs(log) == IF log = <<>> THEN 0 ELSE log[1].ms + SumMs(Tail(log))

\* positions of the script at which a speaker label starts
LabelPositions(s) == {p \in 1..Len(s) : LabelAt(s, p)}

NoLabel(s) == LabelPositions(s) = {}

\* the text of the turn whose label starts at p: from the end of the label
\* to the next label or the end of the script, trimmed
TurnText(s, p) ==
    LET later == {q \in LabelPositions(s) : q > p + 1}
        stop == IF later = {} THEN Len(s) + 1
                ELSE CHOOSE q \in later : \A r \in later : q <= r
    IN  strip(SubSeq(s, p + 2, stop - 1))

\* the turns of a script read label by label, empty turns dropped
RECURSIVE LabelledTurnsFrom(_, _)
LabelledTurnsFrom(s, p) ==
    IF p > Len(s) THEN <<>>
    ELSE IF LabelAt(s, p)
         THEN (IF TurnText(s, p) # <<>>
               THEN <<[speaker |-> s[p], text |-> TurnText(s, p)]>>
               ELSE <<>>) \o LabelledTurnsFrom(s, p + 2)
         ELSE LabelledTurnsFrom(s, p + 1)

LabelledTurns(s) == LabelledTurnsFrom(s, 1)

\* the script from its first speaker label on
DropPreamble(s) ==
    IF NoLabel(s) THEN s
    ELSE LET first == CHOOSE p \in LabelPositions(s) :
                         \A q \in LabelPositions(s) : p <= q
         IN  SubSeq(s, first, Len(s))

\* a script made only of labelled turns, none of them empty
WellFormed(s) ==
    /\ LabelAt(s, 1)
    /\ \A p \in LabelPositions(s) : TurnText(s, p) # <<>>

BuildDateOf(file) == file.channel[Find(file.channel, "lastBuildDate")].text

HasBuildDate(file) == Find(file.channel, "lastBuildDate") # 0

\* C1: starting from an absent feed.xml, after n calls of update_rss_feed
\* the document holds exactly the n entries of those calls, the most recent
\* first, each earlier entry unchanged and in its earlier relative order.
C1_NewestFirst ==
    feed0.kind = "absent" =>
        /\ Len(Items(feed)) = runs
        /\ Items(feed) = Reverse(inserted)
        /\ \A k \in 1..Len(Items(feed)) : Items(feed)[k].episode = runs - k + 1

C1_Witness ==
    /\ feed0.kind = "absent"
    /\ runs = 3
    /\ Len(Items(feed)) = 3
    /\ Items(feed)[1].episode = 3

\* C2: a script without any speaker label parses to no segment, and
\* generate_conversational_audio raises the empty-script error with no
\* synthesis call made, no scratch directory created and no audio exported.
C2_EmptyScriptAborts ==
    NoLabel(script) =>
        /\ parse_script(script) = <<>>
        /\ pc # "call" =>
              /\ segments = <<>>
              /\ pc = "raised"
              /\ error = "EmptyScript"
              /\ tts_log = <<>>
              /\ temp_dir = "none"
              /\ scratch = {}
              /\ export_calls = 0
              /\ episode_file = NoFile

C2_Witness ==
    /\ NoLabel(script)
    /\ Len(script) >= 3
    /\ pc = "raised"
    /\ error = "EmptyScript"

\* C3: once the synthesis call of segment k has failed, the run is over:
\* the calls made are exactly those of segments 0..k, each once, nothing is
\* exported and feed.xml is not written in that run.
C3_SynthesisFailureAborts ==
    error = "tts_error" =>
        /\ pc = "raised"
        /\ Len(tts_log) = i + 1
        /\ \A k \in 1..Len(tts_log) : tts_log[k].segment = k - 1
        /\ tts_log[Len(tts_log)].ms = 0
        /\ Len(tts_log) <= Len(segments)
        /\ export_calls = 0
        /\ feed_writes = 0

C3_Witness ==
    /\ error = "tts_error"
    /\ pc = "raised"
    /\ Len(segments) = 2
    /\ Len(tts_log) = 1
    /\ runs = 2
    /\ Len(Items(feed)) = 1

\* C4: when generate_conversational_audio has ended after creating its
\* scratch directory, the directory and every clip in it are gone, whether
\* it returned or raised.
C4_ScratchReleased ==
    (pc \in {"returned", "raised"} /\ temp_dir # "none") =>
        /\ temp_dir = "removed"
        /\ scratch = {}

C4_Witness ==
    /\ pc = "raised"
    /\ error = "write_error"
    /\ Len(audio_files) = 1
    /\ temp_dir = "removed"
    /\ scratch = {}

\* C5: the exported audio is the clips in segment order, each followed by
\* 300 ms of silence, its length is the sum of the clip lengths plus 300 ms
\* per clip, and the reported duration is that length divided by 1000.
C5_AssembledDuration ==
    pc = "returned" =>
        LET n == Len(segments)
            audio == episode_file.audio
            total == SumMs(tts_log) + 300 * n
        IN  /\ n > 0
            /\ Len(tts_log) = n
            /\ Len(audio) = 2 * n
            /\ \A k \in 1..n :
                  /\ audio[2 * k - 1].kind = "clip"
                  /\ audio[2 * k - 1].clip = k - 1
                  /\ audio[2 * k - 1].ms = tts_log[k].ms
                  /\ audio[2 * k].kind = "silence"
                  /\ audio[2 * k].ms = 300
            /\ AudioLen(audio) = total
            /\ result.returned
            /\ result.whole * 1000 + result.millis = total
            /\ result.millis \in 0..999
            /\ (n = 2 /\ tts_log[1].ms = 1000 /\ tts_log[2].ms = 2000) =>
                  (total = 3600 /\ result.whole = 3 /\ result.millis = 600)

C5_Witness ==
    /\ pc = "returned"
    /\ Len(segments) = 2
    /\ tts_log[1].ms = 1000
    /\ tts_log[2].ms = 2000
    /\ result.whole = 3
    /\ result.millis = 600

\* C6: the text before the first speaker label is discarded: the segments
\* of a script are those of the script with that text removed.
C6_PreambleDiscarded ==
    pc # "script" => segments = parse_script(DropPreamble(script))

\* C7: a segment starts at a speaker name followed by a colon and nowhere
\* else: the segments are the labelled turns of the script, one per label
\* with non-empty text, in order, never split and never merged.
C7_SegmentsOnlyAtLabels ==
    pc # "script" => segments = LabelledTurns(script)

\* C8: for a script made only of non-empty labelled turns, rendering the
\* segments as 'Label: utterance' lines and segmenting that text again
\* gives the same segments, as many of them and none with empty text.
C8_RoundTrip ==
    (pc = "reassembled" /\ WellFormed(script)) =>
        /\ reparsed = segments
        /\ Len(reparsed) = Cardinality(LabelPositions(script))
        /\ \A k \in 1..Len(reparsed) : reparsed[k].text # <<>>

C8_Witness ==
    /\ pc = "reassembled"
    /\ WellFormed(script)
    /\ Len(segments) = 2
    /\ reparsed = segments

\* C9 as stated: after every completed call of update_rss_feed the written
\* document has a build timestamp and it shows the time of that call.
C9_BuildDateAlwaysCurrent ==
    (runs > 0 /\ error = "none") =>
        /\ HasBuildDate(feed)
        /\ BuildDateOf(feed) \in strftime(now - CallTicks)..strftime(now)

\* C9 amended: after every completed call of update_rss_feed on a document
\* that was newly created or whose channel has a lastBuildDate element, the
\* build timestamp shows the time of that call; a loaded channel without
\* that element is written back without it.
C9_BuildDateCurrentWhenPresent ==
    (runs > 0 /\ error = "none") =>
        /\ (feed0.kind = "absent" \/ HasBuildDate(feed0)) =>
              /\ HasBuildDate(feed)
              /\ BuildDateOf(feed) \in strftime(now - CallTicks)..strftime(now)
        /\ (feed0.kind = "xml" /\ ~HasBuildDate(feed0)) => ~HasBuildDate(feed)

C9_Witness ==
    /\ feed0.kind = "xml"
    /\ HasBuildDate(feed0)
    /\ runs = 2
    /\ error = "none"
    /\ now = MaxTime
    /\ BuildDateOf(feed) = strftime(MaxTime)

\* C10: no two entries of the feed have the same guid.
C10_GuidsUnique ==
    \A k, m \in 1..Len(Items(feed)) :
        k # m => Items(feed)[k].guid # Items(feed)[m].guid

HasEntryOf(p) == \E k \in 1..Len(Items(feed)) : Items(feed)[k].episode = p

BothRunsDone == \A p \in RaceRuns : race.pc[p] = "done"

\* C11: when the two runs execute update_rss_feed one after the other, the
\* final document holds the entries of both, the later run's first, after
\* the entries it held before; only when their load-insert-rewrite steps
\* interleave can the final document lack the entry of one of them, and
\* then it still holds the entry of the other.
C11_SequentialKeepsBoth ==
    BothRunsDone =>
        /\ \E p \in RaceRuns : HasEntryOf(p)
        /\ Len(Items(feed)) <= Len(Items(feed0)) + 2
        /\ ~race.overlapped =>
              /\ \A p \in RaceRuns : HasEntryOf(p)
              /\ Len(Items(feed)) = Len(Items(feed0)) + 2
              /\ Items(feed)[1].episode # Items(feed)[2].episode

\* the interleaving of C11: both runs have finished and the document lacks
\* the entry of one of them
C11_Witness ==
    /\ BothRunsDone
    /\ race.overlapped
    /\ feed0.kind = "absent"
    /\ HasEntryOf(2)
    /\ ~HasEntryOf(1)
    /\ Len(Items(feed)) = 1

\* C12: an article whose date is missing or cannot be parsed gets the
\* current time and does not abort the fetch: whatever the batch of
\* articles, fetch_studies returns, with the studies latest first and at
\* most max_studies of them.
C12_FetchReturnsRanked ==
    /\ fetch.pc # "raised"
    /\ fetch.pc = "returned" =>
          /\ Len(fetch.studies) <= fetch.max_studies
          /\ \A k \in 1..(Len(fetch.studies) - 1) :
                fetch.studies[k].pubdate.t >= fetch.studies[k + 1].pubdate.t

====
